---- MODULE Spec2Model ----
(***************************************************************************)
(* Model of the HyperContext validator, src/validators/validate.js.        *)
(*                                                                         *)
(* A document is a sequence of text segments (whitespace runs, runs of     *)
(* ordinary characters, tags, JSON tokens); the string operations of the   *)
(* validator (trim, startsWith, includes, the three extraction regular     *)
(* expressions, JSON.parse, split) are computed on that sequence.  A       *)
(* JavaScript string inside the metadata is a sequence of lexemes.         *)
(***************************************************************************)
EXTENDS Integers, Sequences, FiniteSets

(* ---------------------------------------------------------------------- *)
(* Bounds of the model                                                     *)
(* ---------------------------------------------------------------------- *)
MaxArgs == 2
MaxSummaryWords == 11

(* ---------------------------------------------------------------------- *)
(* Program constants                                                       *)
(* ---------------------------------------------------------------------- *)
REQUIRED_BLOCKS == <<"hc-metadata", "hc-instructions", "hc-human-docs">>
VALID_TYPES == <<"registry", "skill", "artifact", "identity", "framework">>
REQUIRED_METADATA_FIELDS ==
  <<"hc_version", "hc_type", "artifact_id", "version", "created", "updated", "summary">>
EXPECTED_VERSION == <<"1.1">>
MIN_SUMMARY_WORDS == 10
MIN_INSTRUCTIONS_LENGTH == 100
MIN_DOCS_LENGTH == 200

Range(s) == {s[i] : i \in 1..Len(s)}

(* ---------------------------------------------------------------------- *)
(* JavaScript values: the results of JSON.parse and of property access     *)
(* ---------------------------------------------------------------------- *)
Undefined == [t |-> "undefined", s |-> <<>>, n |-> 0, f |-> <<>>]
Null == [t |-> "null", s |-> <<>>, n |-> 0, f |-> <<>>]
False == [t |-> "false", s |-> <<>>, n |-> 0, f |-> <<>>]
True == [t |-> "true", s |-> <<>>, n |-> 0, f |-> <<>>]
Num(k) == [t |-> "number", s |-> <<>>, n |-> k, f |-> <<>>]
Str(lexemes) == [t |-> "string", s |-> lexemes, n |-> 0, f |-> <<>>]
\* an object: its properties as <<key, value>> pairs in insertion order
Obj(pairs) == [t |-> "object", s |-> <<>>, n |-> 0, f |-> pairs]

\* ToBoolean
Truthy(v) ==
  CASE v.t = "string" -> Len(v.s) > 0
    [] v.t = "number" -> v.n # 0
    [] v.t = "true" -> TRUE
    [] v.t = "object" -> TRUE
    [] OTHER -> FALSE

\* ToString, on the values the model draws
JsString(v) ==
  CASE v.t = "string" -> v.s
    [] v.t = "number" -> IF v.n = 0 THEN <<"0">> ELSE <<"42">>
    [] v.t = "object" -> <<"[object Object]">>
    [] OTHER -> <<v.t>>

\* metadata[field] on a non-null value: the last property of that name, or
\* undefined (a primitive has none of the metadata fields)
RECURSIVE Lookup(_, _, _)
Lookup(pairs, key, i) ==
  IF i = 0 THEN Undefined
  ELSE IF pairs[i][1] = key THEN pairs[i][2]
  ELSE Lookup(pairs, key, i - 1)

\* a property name is a string: the one-lexeme sequence <<key>>
Get(v, key) == IF v.t = "object" THEN Lookup(v.f, <<key>>, Len(v.f)) ELSE Undefined

(* ---------------------------------------------------------------------- *)
(* Text segments                                                           *)
(* ---------------------------------------------------------------------- *)
Seg(k, tag, id, n, v) == [k |-> k, tag |-> tag, id |-> id, n |-> n, v |-> v]
Ws(n) == Seg("ws", "", "", n, Undefined)             \* n whitespace characters
Txt(n) == Seg("txt", "", "", n, Undefined)           \* n ordinary characters
StepWord == Seg("step", "", "", 4, Undefined)        \* the four characters Step
Doctype(case) == Seg("doctype", case, "", 15, Undefined)  \* <!DOCTYPE html>
Open(tag, id) == Seg("open", tag, id, 0, Undefined)  \* <tag ... id="id" ...>
Close(tag) == Seg("close", tag, "", 0, Undefined)    \* </tag>
Punct(ch) == Seg("punct", ch, "", 1, Undefined)      \* { } , :
Lit(v) == Seg("lit", "", "", 0, v)                   \* a JSON literal
Fragment == Seg("fragment", "", "", 1, Undefined)    \* a string literal cut short

CLOSE_SCRIPT == "</script>"

\* number of characters of a segment
SegLen(g) ==
  CASE g.k \in {"ws", "txt", "step", "doctype", "punct", "fragment"} -> g.n
    [] g.k = "open" -> 7 + Len(g.tag) + 1
    [] g.k = "close" -> 3 + Len(g.tag)
    [] OTHER -> 2 + Len(g.v.s)

RECURSIVE TextLen(_)
TextLen(text) == IF text = <<>> THEN 0 ELSE SegLen(Head(text)) + TextLen(Tail(text))

\* String.prototype.trim
RECURSIVE TrimStart(_)
TrimStart(text) ==
  IF text # <<>> /\ Head(text).k = "ws" THEN TrimStart(Tail(text)) ELSE text

RECURSIVE TrimEnd(_)
TrimEnd(text) ==
  IF text # <<>> /\ text[Len(text)].k = "ws"
  THEN TrimEnd(SubSeq(text, 1, Len(text) - 1))
  ELSE text

Trim(text) == TrimEnd(TrimStart(text))

\* content.trim().toLowerCase().startsWith('<!doctype html>')
StartsWithDoctype(content) ==
  LET t == Trim(content) IN t # <<>> /\ t[1].k = "doctype"

\* content.includes(`id="${blockId}"`)
IncludesId(content, blockId) ==
  \E i \in 1..Len(content) : content[i].k = "open" /\ content[i].id = blockId

\* instructions.includes('Step')
IncludesStep(text) == \E i \in 1..Len(text) : text[i].k = "step"

\* does the text of the segment contain the closing tag </tag> ?  A string
\* literal of the metadata may spell </script> inside its quotes.
HasClose(g, tag) ==
  \/ g.k = "close" /\ g.tag = tag
  \/ g.k = "lit" /\ tag = "script" /\ g.v.t = "string" /\ CLOSE_SCRIPT \in Range(g.v.s)

\* content.match(/<tag[^>]*id="blockId"[^>]*>([\s\S]*?)<\/tag>/): the leftmost
\* opening tag that is followed by a closing tag, captured up to the first one
NoMatch == [found |-> FALSE, text |-> <<>>]

MatchBlock(content, tag, blockId) ==
  LET opens == {i \in 1..Len(content) :
                  /\ content[i].k = "open" /\ content[i].tag = tag /\ content[i].id = blockId
                  /\ \E j \in (i + 1)..Len(content) : HasClose(content[j], tag)}
  IN IF opens = {} THEN NoMatch
     ELSE LET i == CHOOSE a \in opens : \A b \in opens : a <= b
              j == CHOOSE a \in (i + 1)..Len(content) :
                     /\ HasClose(content[a], tag)
                     /\ \A b \in (i + 1)..(a - 1) : ~HasClose(content[b], tag)
              inner == SubSeq(content, i + 1, j - 1)
          IN [found |-> TRUE,
              text |-> IF content[j].k = "close" THEN inner
                       ELSE inner \o <<Fragment>>]   \* cut inside a string literal

(* ---------------------------------------------------------------------- *)
(* JSON.parse                                                              *)
(* ---------------------------------------------------------------------- *)
SyntaxError == [ok |-> FALSE, v |-> Undefined, next |-> 0]

IsPunct(toks, i, ch) == i <= Len(toks) /\ toks[i].k = "punct" /\ toks[i].tag = ch

RECURSIVE ParseValue(_, _)
RECURSIVE ParseMembers(_, _, _)

\* a value starting at token i: a literal, or an object
ParseValue(toks, i) ==
  IF i > Len(toks) THEN SyntaxError
  ELSE IF toks[i].k = "lit" THEN [ok |-> TRUE, v |-> toks[i].v, next |-> i + 1]
  ELSE IF IsPunct(toks, i, "{")
       THEN IF IsPunct(toks, i + 1, "}")
            THEN [ok |-> TRUE, v |-> Obj(<<>>), next |-> i + 2]
            ELSE ParseMembers(toks, i + 1, <<>>)
  ELSE SyntaxError

\* "key": value, then a comma and another member, or the closing brace
ParseMembers(toks, i, acc) ==
  IF ~(i <= Len(toks) /\ toks[i].k = "lit" /\ toks[i].v.t = "string" /\ IsPunct(toks, i + 1, ":"))
  THEN SyntaxError
  ELSE LET r == ParseValue(toks, i + 2) IN
       IF ~r.ok THEN SyntaxError
       ELSE LET acc2 == Append(acc, <<toks[i].v.s, r.v>>) IN
            IF IsPunct(toks, r.next, "}")
            THEN [ok |-> TRUE, v |-> Obj(acc2), next |-> r.next + 1]
            ELSE IF IsPunct(toks, r.next, ",") THEN ParseMembers(toks, r.next + 1, acc2)
            ELSE SyntaxError

\* JSON.parse(text): whitespace between tokens is skipped; anything that is
\* not a JSON token, and anything after the value, is a syntax error
JSONParse(text) ==
  LET toks == SelectSeq(text, LAMBDA g : g.k # "ws")
      r == ParseValue(toks, 1)
  IN IF \E i \in 1..Len(toks) : toks[i].k \notin {"punct", "lit"} THEN SyntaxError
     ELSE IF r.ok /\ r.next = Len(toks) + 1 THEN r
     ELSE SyntaxError

(* ---------------------------------------------------------------------- *)
(* String operations on metadata values                                    *)
(* ---------------------------------------------------------------------- *)
IsWhitespace(lexeme) == lexeme \in {" ", "\t"}

\* summary.split(/\s+/): the pieces between the maximal whitespace runs; a
\* leading or a trailing run leaves an empty piece at that end
RECURSIVE SplitFrom(_, _, _, _, _)
SplitFrom(s, i, pieces, cur, inRun) ==
  IF i > Len(s) THEN Append(pieces, cur)
  ELSE IF IsWhitespace(s[i])
       THEN IF inRun THEN SplitFrom(s, i + 1, pieces, cur, TRUE)
            ELSE SplitFrom(s, i + 1, Append(pieces, cur), <<>>, TRUE)
  ELSE SplitFrom(s, i + 1, pieces, Append(cur, s[i]), FALSE)

SplitWhitespace(s) == SplitFrom(s, 1, <<>>, <<>>, FALSE)

\* lexemes made of the characters [a-z0-9] and of the characters [0-9]
DIGIT_LEXEMES == {"20240208", "42", "0", "1"}
LOWER_ALNUM_LEXEMES ==
  DIGIT_LEXEMES \cup Range(VALID_TYPES) \cup {"hc", "foo", "bar", "example", "widget"}

\* /^hc-(registry|skill|artifact|identity|framework)-[a-z0-9-]+-\d+$/.test(v)
IdPatternTest(v) ==
  LET s == JsString(v) IN
  /\ Len(s) >= 7
  /\ s[1] = "hc" /\ s[2] = "-" /\ s[3] \in Range(VALID_TYPES) /\ s[4] = "-"
  /\ \E k \in 6..(Len(s) - 1) :
       /\ s[k] = "-"
       /\ \A i \in 5..(k - 1) : s[i] \in LOWER_ALNUM_LEXEMES \cup {"-"}
       /\ \A i \in (k + 1)..Len(s) : s[i] \in DIGIT_LEXEMES

\* the date strings Date accepts, among those the model draws
PARSEABLE_DATES == {<<"2024-02-08T00:00:00Z">>, <<"2024-02-08">>}

\* isNaN(new Date(v).getTime()), for a truthy v: a number or true is a time
\* value, a string is parsed, anything else gives an invalid date
IsInvalidDate(v) ==
  CASE v.t = "string" -> v.s \notin PARSEABLE_DATES
    [] v.t \in {"number", "true"} -> FALSE
    [] OTHER -> TRUE

(* ---------------------------------------------------------------------- *)
(* Findings                                                                *)
(* ---------------------------------------------------------------------- *)
Finding(msg, name, val, n, list) ==
  [msg |-> msg, name |-> name, val |-> val, n |-> n, list |-> list]

MissingDoctype == Finding("Missing HTML5 doctype (<!DOCTYPE html>)", "", <<>>, 0, <<>>)
MissingBlock(blockId) == Finding("Missing required block: #", blockId, <<>>, 0, <<>>)
MissingField(field) == Finding("Missing required metadata field: ", field, <<>>, 0, <<>>)
VersionWarning(found) ==
  Finding("hc_version should be \"1.1\", found ", "hc_version", found, 0, <<>>)
InvalidType(found) == Finding("Invalid hc_type: . Must be one of: ", "hc_type", found, 0, VALID_TYPES)
IdFormatWarning ==
  Finding("artifact_id format should be: hc-[type]-[slug]-[timestamp]", "artifact_id", <<>>, 0, <<>>)
InvalidTimestamp(field, found) == Finding("Invalid timestamp: ", field, found, 0, <<>>)
ShortSummary(wordCount) ==
  Finding("Summary seems short ( words). Aim for 50-100 tokens.", "summary", <<>>, wordCount, <<>>)
InvalidJSON(message) == Finding("Invalid JSON in hc-metadata: ", "", <<message>>, 0, <<>>)
ShortInstructions ==
  Finding("hc-instructions seems very short. Include detailed steps.", "", <<>>, 0, <<>>)
NoSteps == Finding("hc-instructions should include numbered steps", "", <<>>, 0, <<>>)
ShortDocs ==
  Finding("hc-human-docs seems very short. Include comprehensive documentation.", "", <<>>, 0, <<>>)

(* ---------------------------------------------------------------------- *)
(* validate(): the checks, in execution order.  r holds the two finding    *)
(* lists and the exception in flight, if any (thrown # "").                *)
(* ---------------------------------------------------------------------- *)
NoFindings == [errors |-> <<>>, warnings |-> <<>>, thrown |-> ""]

PushError(r, e) == [r EXCEPT !.errors = Append(@, e)]
PushWarning(r, w) == [r EXCEPT !.warnings = Append(@, w)]
Throw(r, message) == [r EXCEPT !.thrown = message]

\* Check HTML5 doctype
CheckDoctype(content, r) ==
  IF ~StartsWithDoctype(content) THEN PushError(r, MissingDoctype) ELSE r

\* Check required blocks
RECURSIVE CheckBlocksFrom(_, _, _)
RECURSIVE CheckBlocksUntilMissing(_, _, _)
CheckBlocksFrom(content, r, i) ==
  IF i > Len(REQUIRED_BLOCKS) THEN r
  ELSE CheckBlocksFrom(content,
         IF ~IncludesId(content, REQUIRED_BLOCKS[i])
         THEN PushError(r, MissingBlock(REQUIRED_BLOCKS[i])) ELSE r,
         i + 1)

\* variant: the loop ends at the first missing block
CheckBlocksUntilMissing(content, r, i) ==
  IF i > Len(REQUIRED_BLOCKS) THEN r
  ELSE IF ~IncludesId(content, REQUIRED_BLOCKS[i])
       THEN PushError(r, MissingBlock(REQUIRED_BLOCKS[i]))
  ELSE CheckBlocksUntilMissing(content, r, i + 1)

CheckBlocksBreaking(content, r) == CheckBlocksUntilMissing(content, r, 1)

CheckBlocks(content, r) == CheckBlocksFrom(content, r, 1)

\* Check required fields; metadata[field] throws when metadata is null
RECURSIVE CheckFieldsFrom(_, _, _)
CheckFieldsFrom(metadata, r, i) ==
  IF i > Len(REQUIRED_METADATA_FIELDS) THEN r
  ELSE CheckFieldsFrom(metadata,
         IF ~Truthy(Get(metadata, REQUIRED_METADATA_FIELDS[i]))
         THEN PushError(r, MissingField(REQUIRED_METADATA_FIELDS[i])) ELSE r,
         i + 1)

CheckRequiredFields(metadata, r) ==
  IF metadata.t = "null"
  THEN Throw(r, "TypeError: Cannot read properties of null")
  ELSE CheckFieldsFrom(metadata, r, 1)

\* variant: a version mismatch is an Error
CheckVersionAsError(metadata, r) ==
  LET v == Get(metadata, "hc_version") IN
  IF Truthy(v) /\ ~(v.t = "string" /\ v.s = EXPECTED_VERSION)
  THEN PushError(r, VersionWarning(JsString(v))) ELSE r

\* Validate hc_version
CheckVersion(metadata, r) ==
  LET v == Get(metadata, "hc_version") IN
  IF Truthy(v) /\ ~(v.t = "string" /\ v.s = EXPECTED_VERSION)
  THEN PushWarning(r, VersionWarning(JsString(v))) ELSE r

\* variant: an invalid type is a Warning
CheckTypeAsWarning(metadata, r) ==
  LET v == Get(metadata, "hc_type") IN
  IF Truthy(v) /\ ~(v.t = "string" /\ Len(v.s) = 1 /\ v.s[1] \in Range(VALID_TYPES))
  THEN PushWarning(r, InvalidType(JsString(v))) ELSE r

\* Validate hc_type
CheckType(metadata, r) ==
  LET v == Get(metadata, "hc_type") IN
  IF Truthy(v) /\ ~(v.t = "string" /\ Len(v.s) = 1 /\ v.s[1] \in Range(VALID_TYPES))
  THEN PushError(r, InvalidType(JsString(v))) ELSE r

\* Validate artifact_id format
CheckArtifactId(metadata, r) ==
  LET v == Get(metadata, "artifact_id") IN
  IF Truthy(v) /\ ~IdPatternTest(v) THEN PushWarning(r, IdFormatWarning) ELSE r

\* Validate timestamps
CheckTimestamp(metadata, r, tsField) ==
  LET v == Get(metadata, tsField) IN
  IF Truthy(v) /\ IsInvalidDate(v)
  THEN PushError(r, InvalidTimestamp(tsField, JsString(v))) ELSE r

CheckTimestamps(metadata, r) ==
  CheckTimestamp(metadata, CheckTimestamp(metadata, r, "created"), "updated")

\* Check summary length; only a string has split
CheckSummary(metadata, r) ==
  LET v == Get(metadata, "summary") IN
  IF ~Truthy(v) THEN r
  ELSE IF v.t # "string"
       THEN Throw(r, "TypeError: metadata.summary.split is not a function")
  ELSE LET wordCount == Len(SplitWhitespace(v.s)) IN
       IF wordCount < MIN_SUMMARY_WORDS THEN PushWarning(r, ShortSummary(wordCount)) ELSE r

\* the body of the try block after JSON.parse: a statement that throws ends it
FieldChecks(metadata, r) ==
  LET r1 == CheckRequiredFields(metadata, r) IN
  IF r1.thrown # "" THEN r1
  ELSE CheckSummary(metadata,
         CheckTimestamps(metadata,
           CheckArtifactId(metadata,
             CheckType(metadata,
               CheckVersion(metadata, r1)))))

\* catch (e): whatever was thrown inside the try block is reported as invalid JSON
Catch(r) ==
  IF r.thrown # "" THEN [PushError(r, InvalidJSON(r.thrown)) EXCEPT !.thrown = ""] ELSE r

\* variant: a parse failure is recorded and the field checks run on an empty object
CheckMetadataLenient(content, r) ==
  LET metadataMatch == MatchBlock(content, "script", "hc-metadata") IN
  IF ~metadataMatch.found THEN r
  ELSE LET parsed == JSONParse(metadataMatch.text) IN
       IF ~parsed.ok
       THEN Catch(FieldChecks(Obj(<<>>), PushError(r, InvalidJSON("SyntaxError"))))
       ELSE Catch(FieldChecks(parsed.v, r))

\* Extract and validate hc-metadata
CheckMetadata(content, r) ==
  LET metadataMatch == MatchBlock(content, "script", "hc-metadata") IN
  IF ~metadataMatch.found THEN r
  ELSE LET parsed == JSONParse(metadataMatch.text) IN
       Catch(IF ~parsed.ok
             THEN Throw(r, "SyntaxError")
             ELSE FieldChecks(parsed.v, r))

\* Check hc-instructions has content
CheckInstructions(content, r) ==
  LET instructionsMatch == MatchBlock(content, "script", "hc-instructions") IN
  IF ~instructionsMatch.found THEN r
  ELSE LET instructions == Trim(instructionsMatch.text)
           r1 == IF TextLen(instructions) < MIN_INSTRUCTIONS_LENGTH
                 THEN PushWarning(r, ShortInstructions) ELSE r
       IN IF ~IncludesStep(instructions) THEN PushWarning(r1, NoSteps) ELSE r1

\* Check hc-human-docs has content
CheckHumanDocs(content, r) ==
  LET humanDocsMatch == MatchBlock(content, "div", "hc-human-docs") IN
  IF ~humanDocsMatch.found THEN r
  ELSE IF TextLen(Trim(humanDocsMatch.text)) < MIN_DOCS_LENGTH
       THEN PushWarning(r, ShortDocs) ELSE r

\* variant: the catch block ends the validation of the document
FindingsEndAtCatch(content) ==
  LET r == CheckMetadata(content, CheckBlocks(content, CheckDoctype(content, NoFindings))) IN
  IF \E e \in Range(r.errors) : e.msg = InvalidJSON("").msg THEN r
  ELSE CheckHumanDocs(content, CheckInstructions(content, r))

\* the findings of one document
Findings(content) ==
  CheckHumanDocs(content,
    CheckInstructions(content,
      CheckMetadata(content,
        CheckBlocks(content,
          CheckDoctype(content, NoFindings)))))

\* variant: any finding fails the document
VerdictOnAnyFinding(r) ==
  IF Len(r.errors) = 0 /\ Len(r.warnings) = 0 THEN 0 ELSE 1

\* the value validate() returns
Verdict(r) ==
  IF Len(r.errors) = 0 /\ Len(r.warnings) = 0 THEN 0
  ELSE IF Len(r.errors) > 0 THEN 1 ELSE 0

\* Output results: what validate() prints for one document
Report(filePath, r) ==
  [file |-> filePath,
   valid |-> Len(r.errors) = 0 /\ Len(r.warnings) = 0,
   errors |-> r.errors,
   warnings |-> r.warnings,
   summary |-> IF Len(r.errors) = 0 /\ Len(r.warnings) = 0 THEN <<>>
               ELSE <<Len(r.errors), Len(r.warnings)>>]

(* ---------------------------------------------------------------------- *)
(* The documents the model draws (layout of src/spec/hc-v1.1.md)           *)
(* ---------------------------------------------------------------------- *)
RECURSIVE Spaces(_)
Spaces(n) == IF n = 0 THEN <<>> ELSE <<" ">> \o Spaces(n - 1)

RECURSIVE Words(_, _)
Words(n, gap) ==
  IF n = 0 THEN <<>>
  ELSE IF n = 1 THEN <<"word">>
  ELSE <<"word">> \o Spaces(gap) \o Words(n - 1, gap)

\* a summary of n words, gap spaces apart, with or without outer whitespace
SummaryText(lead, n, gap, trail) ==
  (IF lead THEN <<" ">> ELSE <<>>) \o Words(n, gap) \o (IF trail THEN <<"\t">> ELSE <<>>)

\* word counts around the minimum, and no word at all
SummaryTexts ==
  {SummaryText(lead, n, gap, trail) :
     lead \in BOOLEAN, n \in {0} \cup (MIN_SUMMARY_WORDS - 2)..MaxSummaryWords,
     gap \in 1..2, trail \in BOOLEAN}

GoodDate == Str(<<"2024-02-08T00:00:00Z">>)
GoodSummary == Str(SummaryText(FALSE, MIN_SUMMARY_WORDS, 1, FALSE))

BaseMetadata ==
  [hc_version |-> Str(EXPECTED_VERSION),
   hc_type |-> Str(<<"skill">>),
   artifact_id |-> Str(<<"hc", "-", "skill", "-", "foo", "-", "bar", "-", "20240208">>),
   version |-> Str(<<"1.0.0">>),
   created |-> GoodDate,
   updated |-> GoodDate,
   summary |-> GoodSummary]

\* Undefined stands for a field the object does not have
FieldChoices ==
  [hc_version : {Str(EXPECTED_VERSION), Str(<<"1.0">>), Str(<<>>), Undefined},
   hc_type : {Str(<<"skill">>), Str(<<"widget">>), Str(<<>>), Num(0), Undefined},
   artifact_id : {BaseMetadata.artifact_id, Str(<<"hc", "-", "skill", "-", "Foo">>), Undefined},
   version : {Str(<<"1.0.0">>), Undefined},
   created : {GoodDate, Str(<<"yesterday">>), Num(42), Null},
   updated : {GoodDate, Str(<<"soon">>)},
   summary : {GoodSummary, Str(SummaryText(FALSE, 3, 1, FALSE)), Num(42), Undefined}]

Deviations(m) ==
  Cardinality({i \in 1..Len(REQUIRED_METADATA_FIELDS) :
                 m[REQUIRED_METADATA_FIELDS[i]] # BaseMetadata[REQUIRED_METADATA_FIELDS[i]]})

MetadataObjects ==
  {m \in FieldChoices : Deviations(m) <= 2}
    \cup {[BaseMetadata EXCEPT !.summary = Str(t)] : t \in SummaryTexts \ {<<>>}}

\* the JSON text of an object
RECURSIVE RenderFrom(_, _, _)
RenderFrom(m, i, first) ==
  IF i > Len(REQUIRED_METADATA_FIELDS) THEN <<Punct("}")>>
  ELSE LET key == REQUIRED_METADATA_FIELDS[i] IN
       IF m[key] = Undefined THEN RenderFrom(m, i + 1, first)
       ELSE (IF first THEN <<>> ELSE <<Punct(",")>>)
              \o <<Lit(Str(<<key>>)), Punct(":"), Lit(m[key])>>
              \o RenderFrom(m, i + 1, FALSE)

Render(m) == <<Punct("{")>> \o RenderFrom(m, 1, TRUE)

BaseJson == Render(BaseMetadata)

\* metadata texts that are not the JSON text of an object
MalformedJson ==
  {<<>>,
   <<Txt(5)>>,
   SubSeq(BaseJson, 1, Len(BaseJson) - 1),
   SubSeq(BaseJson, 1, Len(BaseJson) - 1) \o <<Punct(","), Punct("}")>>,
   BaseJson \o <<Lit(Num(42))>>,
   <<Punct("{"), Lit(Num(42)), Punct(":"), Lit(Null), Punct("}")>>}

OtherJson ==
  {<<Lit(Null)>>, <<Lit(Num(42))>>, <<Lit(Str(<<"skill">>))>>, <<Punct("{"), Punct("}")>>}

ScriptBlock(id, text) == <<Open("script", id), Ws(1)>> \o text \o <<Ws(1), Close("script")>>
DivBlock(id, text) == <<Open("div", id), Ws(1)>> \o text \o <<Ws(1), Close("div")>>

Shells == {<<Doctype("upper")>>, <<Ws(2), Doctype("lower")>>, <<Txt(6)>>}

GoodInstructions ==
  ScriptBlock("hc-instructions", <<StepWord, Txt(MIN_INSTRUCTIONS_LENGTH - 4)>>)

InstructionBlocks ==
  {<<>>,
   GoodInstructions,
   ScriptBlock("hc-instructions", <<StepWord, Txt(MIN_INSTRUCTIONS_LENGTH - 5)>>),
   ScriptBlock("hc-instructions", <<Txt(MIN_INSTRUCTIONS_LENGTH)>>),
   ScriptBlock("hc-instructions", <<Txt(MIN_INSTRUCTIONS_LENGTH - 1)>>),
   DivBlock("hc-instructions", <<StepWord, Txt(MIN_INSTRUCTIONS_LENGTH)>>)}

GoodHumanDocs == DivBlock("hc-human-docs", <<Txt(MIN_DOCS_LENGTH)>>)

HumanDocsBlocks ==
  {<<>>,
   GoodHumanDocs,
   DivBlock("hc-human-docs", <<Txt(MIN_DOCS_LENGTH - 1)>>),
   ScriptBlock("hc-human-docs", <<Txt(MIN_DOCS_LENGTH)>>)}

\* metadata blocks combined with every shell, instructions and human-docs block
CoreMetadataBlocks ==
  {<<>>,
   ScriptBlock("hc-metadata", BaseJson),
   DivBlock("hc-metadata", BaseJson),
   <<Open("script", "hc-metadata")>> \o BaseJson,
   ScriptBlock("hc-metadata", <<Txt(5)>>),
   ScriptBlock("hc-metadata", <<Lit(Null)>>),
   ScriptBlock("hc-metadata",
     Render([BaseMetadata EXCEPT !.hc_version = Str(<<"1.0">>), !.summary = Num(42)])),
   ScriptBlock("hc-metadata",
     Render([BaseMetadata EXCEPT !.hc_type = Str(<<"widget">>), !.created = Str(<<"yesterday">>)]))}

MetadataBlocks ==
  {ScriptBlock("hc-metadata", Render(m)) : m \in MetadataObjects}
    \cup {ScriptBlock("hc-metadata", t) : t \in MalformedJson \cup OtherJson}

Document(shell, metadataBlock, instructionsBlock, humanDocsBlock) ==
  shell \o <<Ws(1), Txt(12)>> \o metadataBlock \o <<Ws(1)>> \o instructionsBlock
        \o <<Ws(1), Txt(13)>> \o humanDocsBlock \o <<Ws(1), Txt(14), Ws(1)>>

Documents ==
  {Document(<<Doctype("upper")>>, mb, GoodInstructions, GoodHumanDocs) : mb \in MetadataBlocks}
    \cup {Document(sh, mb, ib, hb) :
            sh \in Shells, mb \in CoreMetadataBlocks,
            ib \in InstructionBlocks, hb \in HumanDocsBlocks}

\* the documents of which an edited copy is drawn as well: one metadata field
\* or one block away from the reference document
EditableDocuments ==
  {Document(<<Doctype("upper")>>, ScriptBlock("hc-metadata", Render(m)),
            GoodInstructions, GoodHumanDocs) :
     m \in {x \in FieldChoices : Deviations(x) <= 1}}
    \cup {Document(<<Doctype("upper")>>, ScriptBlock("hc-metadata", BaseJson), ib, hb) :
            ib \in InstructionBlocks, hb \in HumanDocsBlocks}

\* an edit of one metadata field: the literal after the first "key": is replaced
NoEdit == [key |-> "", v |-> Undefined]

Edits ==
  {NoEdit}
    \cup {[key |-> "hc_version", v |-> x] :
            x \in {Str(<<"1.0">>), Str(<<"1.1", " ">>), Str(<<>>),
                   Str(<<"2", CLOSE_SCRIPT>>), Num(42)}}
    \cup {[key |-> "hc_type", v |-> x] :
            x \in {Str(<<"widget">>), Str(<<"Skill">>), Str(<<>>), Num(0), Num(42),
                   True, False, Null, Str(<<CLOSE_SCRIPT>>)}}

SetField(content, key, v) ==
  LET at == {i \in 1..(Len(content) - 2) :
               /\ content[i] = Lit(Str(<<key>>))
               /\ content[i + 1] = Punct(":")
               /\ content[i + 2].k = "lit"}
  IN IF at = {} THEN content
     ELSE LET i == CHOOSE a \in at : \A b \in at : a <= b
          IN [content EXCEPT ![i + 2] = Lit(v)]

ApplyEdit(content, edit) ==
  IF edit = NoEdit THEN content ELSE SetField(content, edit.key, edit.v)

\* a.html is any document and b.html a copy of it, edited or not
Inputs == (Documents \X {NoEdit}) \cup (EditableDocuments \X Edits)

(* ---------------------------------------------------------------------- *)
(* The command line run: node validate.js <args>                           *)
(* ---------------------------------------------------------------------- *)
Paths == {"a.html", "b.html", "missing.html"}

File(content) == [readable |-> TRUE, content |-> content]
NoFile == [readable |-> FALSE, content |-> <<>>]

\* the argument lists: up to MaxArgs distinct paths
ArgLists ==
  UNION {{a \in [1..n -> Paths] : \A i, j \in 1..n : i # j => a[i] # a[j]} : n \in 0..MaxArgs}

VARIABLES
  fs,        \* the files: path -> readable?, content
  args,      \* process.argv.slice(2)
  idx,       \* position of the main loop in args
  exitCode,  \* let exitCode
  pc,        \* "main" while the script runs, "exited" after process.exit
  status,    \* the exit status of the process, -1 while it runs
  stdout,    \* what console.log printed, one entry per report
  stderr,    \* what console.error printed
  errors,    \* the errors list of the last validate() call
  warnings,  \* the warnings list of the last validate() call
  result     \* what the last validate() call returned, -1 before any

vars == <<fs, args, idx, exitCode, pc, status, stdout, stderr, errors, warnings, result>>

Init ==
  /\ \E in \in Inputs :
       fs = [p \in Paths |->
               IF p = "a.html" THEN File(in[1])
               ELSE IF p = "b.html" THEN File(ApplyEdit(in[1], in[2]))
               ELSE NoFile]
  /\ args \in ArgLists
  /\ idx = 1
  /\ exitCode = 0
  /\ pc = "main"
  /\ status = -1
  /\ stdout = <<>>
  /\ stderr = <<>>
  /\ errors = <<>>
  /\ warnings = <<>>
  /\ result = -1

\* if (args.length === 0) { usage; process.exit(1) }
Usage ==
  /\ pc = "main"
  /\ Len(args) = 0
  /\ stdout' = Append(stdout, [file |-> "Usage: node validate.js <file.html>", valid |-> FALSE,
                               errors |-> <<>>, warnings |-> <<>>, summary |-> <<>>])
  /\ status' = 1
  /\ pc' = "exited"
  /\ UNCHANGED <<fs, args, idx, exitCode, stderr, errors, warnings, result>>

\* one iteration of the main loop: result = validate(arg); a file that cannot
\* be read makes validate() end the process
Validate ==
  /\ pc = "main"
  /\ idx <= Len(args)
  /\ LET filePath == args[idx] IN
     IF ~fs[filePath].readable
     THEN /\ stderr' = Append(stderr, <<"Error reading file: ", filePath>>)
          /\ status' = 1
          /\ pc' = "exited"
          /\ errors' = <<>>
          /\ warnings' = <<>>
          /\ UNCHANGED <<idx, exitCode, stdout, result>>
     ELSE LET r == Findings(fs[filePath].content) IN
          /\ errors' = r.errors
          /\ warnings' = r.warnings
          /\ stdout' = Append(stdout, Report(filePath, r))
          /\ result' = Verdict(r)
          /\ exitCode' = IF Verdict(r) # 0 THEN Verdict(r) ELSE exitCode
          /\ idx' = idx + 1
          /\ UNCHANGED <<pc, status, stderr>>
  /\ UNCHANGED <<fs, args>>

\* process.exit(exitCode) after the loop
Exit ==
  /\ pc = "main"
  /\ Len(args) > 0
  /\ idx > Len(args)
  /\ status' = exitCode
  /\ pc' = "exited"
  /\ UNCHANGED <<fs, args, idx, exitCode, stdout, stderr, errors, warnings, result>>

Next == Usage \/ Validate \/ Exit

Spec == Init /\ [][Next]_vars

TypeOK ==
  /\ pc \in {"main", "exited"}
  /\ idx \in 1..(Len(args) + 1)
  /\ exitCode \in {0, 1}
  /\ status \in {-1, 0, 1}
  /\ result \in {-1, 0, 1}

(* ---------------------------------------------------------------------- *)
(* Vocabulary of the properties                                            *)
(* ---------------------------------------------------------------------- *)
\* the last validate() call read its file and returned
CallReturned == idx > 1 /\ stderr = <<>>

\* the document that call validated
LastContent == fs[args[idx - 1]].content

Count(list, Test(_)) == Len(SelectSeq(list, Test))

IsInvalidJSON(f) == f.msg = InvalidJSON("").msg
IsMissingBlock(f) == f.msg = MissingBlock("").msg

\* the findings of the metadata-field checks
IsFieldFinding(f) ==
  f.msg \in {MissingField("").msg, VersionWarning(<<>>).msg, InvalidType(<<>>).msg,
             IdFormatWarning.msg, InvalidTimestamp("", <<>>).msg, ShortSummary(0).msg}

\* the extraction of the metadata block and the parse of what it captured
Extracted(content) == MatchBlock(content, "script", "hc-metadata")
Parsed(content) == JSONParse(Extracted(content).text)

\* C1: validate() returns 1 exactly when its Error list is non-empty, and 0
\* otherwise, however many Warnings it recorded.
C1_VerdictIffErrors ==
  CallReturned =>
    /\ result \in {0, 1}
    /\ (result = 1) <=> (Len(errors) > 0)

\* a run with two Warnings or more and no Error returned 0
C1_Witness ==
  CallReturned /\ Len(errors) = 0 /\ Len(warnings) >= 2 /\ result = 0

\* C2 (as claimed): when the run has ended, every readable document of the
\* batch has been validated and reported, whatever came before it.
C2_EveryDocumentValidated ==
  (pc = "exited" /\ Len(args) > 0) =>
    \A i \in 1..Len(args) :
      fs[args[i]].readable => \E k \in 1..Len(stdout) : stdout[k].file = args[i]

\* C3: when the extracted metadata text is not valid JSON, the metadata
\* validation records the one parse Error and no metadata-field finding.
C3_InvalidJsonOneError ==
  (CallReturned /\ Extracted(LastContent).found /\ ~Parsed(LastContent).ok) =>
    /\ Count(errors, IsInvalidJSON) = 1
    /\ InvalidJSON("SyntaxError") \in Range(errors)
    /\ Count(errors, IsFieldFinding) = 0
    /\ Count(warnings, IsFieldFinding) = 0

\* a document with an unparseable metadata block was validated
C3_Witness ==
  /\ CallReturned /\ Extracted(LastContent).found /\ ~Parsed(LastContent).ok
  /\ Extracted(LastContent).text # <<>>
  /\ InvalidJSON("SyntaxError") \in Range(errors)

\* C4 (as claimed): when the metadata block is not extracted, the Error list
\* holds the missing-block Error of hc-metadata.
C4_SkippedImpliesMissingBlock ==
  (CallReturned /\ ~Extracted(LastContent).found) =>
    MissingBlock("hc-metadata") \in Range(errors)

\* a.html then b.html were validated: stdout[1] reports a.html, and errors,
\* warnings and result are those of b.html
PairValidated == args = <<"a.html", "b.html">> /\ idx = 3 /\ stderr = <<>>

\* b.html is a.html with only the value of the metadata field key changed, to v
OnlyFieldChanged(key, v) ==
  /\ fs["b.html"].content = SetField(fs["a.html"].content, key, v)
  /\ fs["b.html"].content # fs["a.html"].content

\* a.html passed, and its metadata carries the expected hc_version
PassesWithExpectedVersion ==
  /\ stdout[1].errors = <<>>
  /\ Extracted(fs["a.html"].content).found
  /\ Parsed(fs["a.html"].content).ok
  /\ Get(Parsed(fs["a.html"].content).v, "hc_version") = Str(EXPECTED_VERSION)

\* the edited copy has the version Warning showing v, which the original has
\* not, no Error, and passes
VersionWarningAdded(v) ==
  /\ errors = <<>>
  /\ result = 0
  /\ Count(warnings, LAMBDA w : w = VersionWarning(v.s)) = 1
  /\ Count(stdout[1].warnings, LAMBDA w : w.msg = VersionWarning(<<>>).msg) = 0

VersionStrings == {e.v : e \in {x \in Edits : x.key = "hc_version" /\ x.v.t = "string"}}

\* C5 (as claimed): changing only hc_version of a passing document to any
\* string other than "1.1" adds a version Warning, no Error, and still passes.
C5_AnyOtherVersionString ==
  PairValidated /\ PassesWithExpectedVersion =>
    \A v \in VersionStrings :
      (v.s # EXPECTED_VERSION /\ OnlyFieldChanged("hc_version", v)) => VersionWarningAdded(v)

\* C5 (amended): the same for any non-empty string other than "1.1" that does
\* not contain the text </script>.
C5_OtherNonEmptyVersionString ==
  PairValidated /\ PassesWithExpectedVersion =>
    \A v \in VersionStrings :
      (/\ v.s # EXPECTED_VERSION /\ v.s # <<>> /\ CLOSE_SCRIPT \notin Range(v.s)
       /\ OnlyFieldChanged("hc_version", v)) => VersionWarningAdded(v)

\* a passing document with two Warnings of its own, and its copy with
\* hc_version "1.0", were both validated
C5_Witness ==
  /\ PairValidated /\ PassesWithExpectedVersion
  /\ OnlyFieldChanged("hc_version", Str(<<"1.0">>))
  /\ Len(stdout[1].warnings) = 2
  /\ Len(warnings) = 3 /\ result = 0

\* C6: the Error list holds one missing-block Error for each required block
\* identifier that does not occur as id="...", none for one that occurs, in
\* the order metadata, instructions, human-docs.
C6_MissingBlockErrors ==
  CallReturned =>
    SelectSeq(errors, IsMissingBlock)
      = SelectSeq(<<MissingBlock("hc-metadata"), MissingBlock("hc-instructions"),
                    MissingBlock("hc-human-docs")>>,
                  LAMBDA e : ~IncludesId(LastContent, e.name))

\* a document with hc-instructions but without the two other identifiers
C6_Witness ==
  /\ CallReturned
  /\ IncludesId(LastContent, "hc-instructions")
  /\ SelectSeq(errors, IsMissingBlock)
       = <<MissingBlock("hc-metadata"), MissingBlock("hc-human-docs")>>

TypeValues == {e.v : e \in {x \in Edits : x.key = "hc_type"}}

OutsideValidTypes(v) == ~(v.t = "string" /\ Len(v.s) = 1 /\ v.s[1] \in Range(VALID_TYPES))

\* the edited copy fails with the one Error that names v and lists the types
OnlyInvalidTypeError(v) ==
  /\ result = 1
  /\ errors = <<InvalidType(JsString(v))>>
  /\ errors[1].list = <<"registry", "skill", "artifact", "identity", "framework">>

\* a.html passed with zero Errors and its metadata was parsed
PassesWithMetadata ==
  /\ stdout[1].errors = <<>>
  /\ Extracted(fs["a.html"].content).found
  /\ Parsed(fs["a.html"].content).ok

\* C7 (as claimed): changing only hc_type of a passing document to any value
\* outside the five allowed types makes it fail with exactly the one
\* invalid-type Error.
C7_AnyValueOutside ==
  PairValidated /\ PassesWithMetadata =>
    \A v \in TypeValues :
      (OutsideValidTypes(v) /\ OnlyFieldChanged("hc_type", v)) => OnlyInvalidTypeError(v)

\* C7 (amended): the same for any truthy value (a non-empty string, a number
\* other than zero) outside the allowed types whose text does not contain
\* </script>.
C7_TruthyValueOutside ==
  PairValidated /\ PassesWithMetadata =>
    \A v \in TypeValues :
      (/\ OutsideValidTypes(v) /\ Truthy(v) /\ CLOSE_SCRIPT \notin Range(v.s)
       /\ OnlyFieldChanged("hc_type", v)) => OnlyInvalidTypeError(v)

\* a passing document and its copy with hc_type "widget" were both validated
C7_Witness ==
  /\ PairValidated /\ PassesWithMetadata
  /\ OnlyFieldChanged("hc_type", Str(<<"widget">>))
  /\ result = 1 /\ errors = <<InvalidType(<<"widget">>)>>

\* the whitespace-delimited tokens of a string: its maximal runs of
\* characters that are not whitespace
TokenCount(s) ==
  Cardinality({i \in 1..Len(s) :
                 ~IsWhitespace(s[i]) /\ (i = 1 \/ IsWhitespace(s[i - 1]))})

\* C8 (as claimed): for a non-empty summary string, the short-summary Warning
\* is recorded exactly when the summary has fewer than 10 tokens.
C8_WarningIffFewerThanTenTokens ==
  (/\ CallReturned /\ Extracted(LastContent).found /\ Parsed(LastContent).ok
   /\ Get(Parsed(LastContent).v, "summary").t = "string"
   /\ Get(Parsed(LastContent).v, "summary").s # <<>>) =>
    ((\E w \in Range(warnings) : w.msg = ShortSummary(0).msg)
       <=> TokenCount(Get(Parsed(LastContent).v, "summary").s) < MIN_SUMMARY_WORDS)

IsIndependentFinding(f) ==
  f.msg \in {MissingDoctype.msg, MissingBlock("").msg, ShortInstructions.msg,
             NoSteps.msg, ShortDocs.msg}

\* C9: the doctype check, the block-presence checks, the hc-instructions
\* checks and the hc-human-docs check record what each records when run on
\* the document alone, whatever the metadata checks found or threw; and a
\* metadata-field finding is recorded only when the metadata parsed.
C9_IndependentChecks ==
  CallReturned =>
    /\ SelectSeq(errors, IsIndependentFinding)
         = CheckBlocks(LastContent, CheckDoctype(LastContent, NoFindings)).errors
    /\ SelectSeq(warnings, IsIndependentFinding)
         = CheckHumanDocs(LastContent, CheckInstructions(LastContent, NoFindings)).warnings
    /\ (Count(errors, IsFieldFinding) + Count(warnings, IsFieldFinding) > 0
          => Extracted(LastContent).found /\ Parsed(LastContent).ok)

\* the metadata failed to parse, the doctype and a block identifier are
\* missing, and the instructions are short and without steps
C9_Witness ==
  /\ CallReturned
  /\ Count(errors, IsInvalidJSON) = 1
  /\ MissingDoctype \in Range(errors)
  /\ MissingBlock("hc-human-docs") \in Range(errors)
  /\ warnings = <<ShortInstructions, NoSteps>>

\* C10 (as claimed): the invalid-JSON Error is recorded only when the parse of
\* the metadata text fails, and never together with a metadata-field finding.
C10_InvalidJsonOnlyOnParseFailure ==
  (CallReturned /\ Count(errors, IsInvalidJSON) > 0) =>
    /\ Extracted(LastContent).found /\ ~Parsed(LastContent).ok
    /\ Count(errors, IsFieldFinding) + Count(warnings, IsFieldFinding) = 0

====
